---- MODULE Spec2Model ----
(***************************************************************************)
(* A model of videoViewerPi2.py (class VideoViewerPi): the URI resolver,   *)
(* the resolution presets, the encoder selector, the graph builders, the   *)
(* session life cycle (start / bus messages / user interrupt / stop) with  *)
(* the media engine as the environment, the capture thread of the AppSink  *)
(* mode statement by statement, and the readers of the frame slot.  The    *)
(* build_pipeline of the older script video-viewerPi.py is modelled next   *)
(* to it.                                                                  *)
(*                                                                         *)
(* Texts are sequences of one-character strings, so that prefix tests,     *)
(* regular-expression matches and int() are computed character by          *)
(* character, as the Python code computes them.                            *)
(***************************************************************************)
EXTENDS Integers, Sequences, FiniteSets, TLC

VARIABLES
    \* ---- harness of the pure functions (specification SpecParse) ----
    text,           \* the text handed to parse_input / parse_output
    call,           \* which function has been applied: "none", "parse_input", ...
    result,         \* what it returned or raised
    \* ---- VideoViewerPi.__init__ : configuration ----
    input_uri, output_uri, input_codec, output_codec, hw_encoder, platform,
    \* ---- VideoViewerPi.__init__ : session fields ----
    pipeline,       \* self.pipeline: 0 (None) or the id of an instantiation
    http_pipeline,  \* self.http_pipeline: 0 (None) or the id of an instantiation
    running,        \* self.running
    frame,          \* self.frame: None or the bytes of the array stored
    cuda_frame,     \* self.cuda_frame: None or the bytes of the array stored
    \* ---- the media engine ----
    insts,          \* sequence of [kind, state, desc]: every instantiation parse_launch
                    \* made, the id of an instantiation being its index
    bus,            \* messages waiting on the bus of the newest instantiation
    eos_sent,       \* an end-of-stream event was sent into the main pipeline
    samples,        \* number of samples the appsink has handed out so far
    \* ---- control ----
    pc,             \* where the main thread is
    err,            \* how the last API call ended: "none" or the exception raised
    cause,          \* history: which notification ended the last run ("none" if none)
    last,           \* history: the last API call made: "none", "start", "stop"
    cthreads,       \* ids of the instantiations whose capture thread is in its loop
    \* ---- capture threads and readers ----
    cap,            \* per instantiation, its capture thread: [at, smp, maps], the
                    \* statement it is at, the number of the sample it holds and
                    \* the number of buffers it has mapped and not unmapped
    lastcap,        \* history: number of the sample of the latest completed
                    \* store into self.frame (0 if none)
    got,            \* [fn, val]: the last get_frame / get_cuda_frame call and
                    \* what it returned
    \* ---- the HTTP server ----
    servers,        \* number of threads started with target app.run
    clients         \* per connection of /stream, its generator: [at, sink, smp,
                    \* maps, chunks], the statement it is at, the instantiation
                    \* whose appsink it pulls from, the number of the sample it
                    \* holds, the number of buffers it has mapped and not
                    \* unmapped, and the chunks it has yielded so far

parseVars == <<text, call, result>>
configVars == <<input_uri, output_uri, input_codec, output_codec, hw_encoder, platform>>
sessionVars == <<pipeline, http_pipeline, running, frame, cuda_frame>>
engineVars == <<insts, bus, eos_sent, samples>>
controlVars == <<pc, err, cause, last, cthreads>>
captureVars == <<cap, lastcap, got>>
serverVars == <<servers, clients>>
vars == <<text, call, result,
          input_uri, output_uri, input_codec, output_codec, hw_encoder, platform,
          pipeline, http_pipeline, running, frame, cuda_frame,
          insts, bus, eos_sent, samples, pc, err, cause, last, cthreads,
          cap, lastcap, got, servers, clients>>

(***************************************************************************)
(* Bounds of the model.                                                    *)
(***************************************************************************)
\* longest port text (a run of digits) among the generated URIs
MaxPortLen == 5
\* instantiations one session may create (calls of start() that reach parse_launch)
MaxInst == 2
\* messages the engine posts on one bus
MaxBus == 2
\* samples the engine hands to pull-sample
MaxSamples == 2
\* bytes of one sample
FrameLen == 2
\* simultaneous connections of the /stream endpoint
MaxClients == 2

(***************************************************************************)
(* Characters and texts.                                                   *)
(***************************************************************************)
Digits == {"0", "1", "2", "3", "4", "5", "6", "7", "8", "9"}

DigitVal(c) ==
    CASE c = "0" -> 0 [] c = "1" -> 1 [] c = "2" -> 2 [] c = "3" -> 3
      [] c = "4" -> 4 [] c = "5" -> 5 [] c = "6" -> 6 [] c = "7" -> 7
      [] c = "8" -> 8 [] c = "9" -> 9

\* str.startswith
startswith(u, p) ==
    /\ Len(u) >= Len(p)
    /\ SubSeq(u, 1, Len(p)) = p

\* u[n:]
SliceFrom(u, n) == SubSeq(u, n + 1, Len(u))

\* "c in s"
Contains(s, c) == \E i \in 1..Len(s) : s[i] = c

\* index of the last occurrence of c in s (0 if none): the split point of rsplit(c, 1)
RECURSIVE LastIndex(_, _, _)
LastIndex(s, c, i) ==
    IF i = 0 THEN 0
    ELSE IF s[i] = c THEN i
    ELSE LastIndex(s, c, i - 1)

\* index of the first occurrence of the text p in u at or after i (0 if none)
RECURSIVE FindText(_, _, _)
FindText(u, p, i) ==
    IF i + Len(p) - 1 > Len(u) THEN 0
    ELSE IF SubSeq(u, i, i + Len(p) - 1) = p THEN i
    ELSE FindText(u, p, i + 1)

\* u.split(p)[1] for a text u that contains p: what lies between the first and
\* the second occurrence of p
SplitSecond(u, p) ==
    LET a == FindText(u, p, 1)
        b == FindText(u, p, a + Len(p))
    IN  IF b = 0 THEN SubSeq(u, a + Len(p), Len(u))
        ELSE SubSeq(u, a + Len(p), b - 1)

\* the value of a run of decimal digits
RECURSIVE DecVal(_)
DecVal(s) ==
    IF s = <<>> THEN 0
    ELSE DecVal(SubSeq(s, 1, Len(s) - 1)) * 10 + DigitVal(s[Len(s)])

\* end of the longest run of characters of class cls that starts at i
\* (the greedy match of cls* at i): the first index not in the run
RECURSIVE RunEnd(_, _, _)
RunEnd(u, i, cls) ==
    IF i <= Len(u) /\ u[i] \in cls THEN RunEnd(u, i + 1, cls) ELSE i

\* str.strip() of the blanks
RECURSIVE Strip(_)
Strip(s) ==
    IF s = <<>> THEN s
    ELSE IF s[1] = " " THEN Strip(Tail(s))
    ELSE IF s[Len(s)] = " " THEN Strip(SubSeq(s, 1, Len(s) - 1))
    ELSE s

\* digits with single underscores between them, as int() accepts them
RECURSIVE DigitGroups(_)
DigitGroups(s) ==
    /\ s # <<>>
    /\ s[1] \in Digits
    /\ \/ Len(s) = 1
       \/ /\ s[2] = "_"
          /\ DigitGroups(SubSeq(s, 3, Len(s)))
       \/ /\ s[2] # "_"
          /\ DigitGroups(Tail(s))

\* the text without its underscores
RECURSIVE DropUnderscores(_)
DropUnderscores(s) ==
    IF s = <<>> THEN s
    ELSE IF s[1] = "_" THEN DropUnderscores(Tail(s))
    ELSE <<s[1]>> \o DropUnderscores(Tail(s))

\* Python's int(text): <<n>> for the integer n, <<>> when int() raises ValueError.
\* int() strips surrounding blanks, takes one optional sign and digits that may
\* be grouped by single underscores.
PyInt(p) ==
    LET s == Strip(p)
        signed == s # <<>> /\ s[1] \in {"+", "-"}
        body == IF signed THEN Tail(s) ELSE s
    IN  IF ~DigitGroups(body) THEN <<>>
        ELSE IF signed /\ s[1] = "-" THEN << 0 - DecVal(DropUnderscores(body)) >>
        ELSE << DecVal(DropUnderscores(body)) >>

(***************************************************************************)
(* Text constants.                                                         *)
(***************************************************************************)
DevVideoPrefix == <<"/","d","e","v","/","v","i","d","e","o">>
CsiPrefix == <<"c","s","i",":","/","/">>
UdpPrefix == <<"u","d","p",":","/","/">>
RtpPrefix == <<"r","t","p",":","/","/">>
McPrefix == <<"m","c",":","/","/">>
RtspPrefix == <<"r","t","s","p",":","/","/">>
SavePrefix == <<"s","a","v","e",":","/","/">>
LocalText == <<"l","o","c","a","l">>
HttpText == <<"h","t","t","p">>
AppsinkText == <<"a","p","p","s","i","n","k">>

\* Spec values. One record shape for every variant and for the failure:
\* host is <<>> for None (the code never keeps an empty host), port is <<>>
\* for "no port" and <<n>> for port n, arg is the device / index / uri / path.
MkSpec(t, h, p, a) == [type |-> t, host |-> h, port |-> p, arg |-> a]
Raised(e) == [type |-> e, host |-> <<>>, port |-> <<>>, arg |-> <<>>]
NoResult == Raised("none")
ErrorTypes == {"ValueError", "IndexError", "AttributeError"}

(***************************************************************************)
(* The file system as os.path.isfile sees it.                              *)
(***************************************************************************)
ClipMp4 == <<"c","l","i","p",".","m","p","4">>
\* the relative path rtp:/cam: a regular file whose name begins like a URI
RtpCamFile == <<"r","t","p",":","/","/","c","a","m">>
ExistingFiles == {ClipMp4, RtpCamFile}
isfile(u) == u \in ExistingFiles

(***************************************************************************)
(* re.match(prefix + HOST + ":(\d+)", u), HOST being [\d\.]+ or, when      *)
(* allowAt, (?:[\d\.]+|@).  re.match anchors at the start of u only.  The  *)
(* host class holds no ":" and the port class is greedy with nothing after *)
(* it, so backtracking finds no other match than the longest runs.         *)
(***************************************************************************)
HostClass == Digits \cup {"."}

ReHostPort(u, prefix, allowAt) ==
    LET i == Len(prefix) + 1
        e == RunEnd(u, i, HostClass)
        hostEnd == IF e > i THEN e
                   ELSE IF allowAt /\ i <= Len(u) /\ u[i] = "@" THEN i + 1
                   ELSE 0
        portEnd == IF hostEnd = 0 THEN 0 ELSE RunEnd(u, hostEnd + 1, Digits)
        ok == /\ startswith(u, prefix)
              /\ hostEnd # 0
              /\ hostEnd <= Len(u)
              /\ u[hostEnd] = ":"
              /\ portEnd > hostEnd + 1
    IN  [ok |-> ok,
         host |-> IF ok THEN SubSeq(u, i, hostEnd - 1) ELSE <<>>,
         port |-> IF ok THEN DecVal(SubSeq(u, hostEnd + 1, portEnd - 1)) ELSE 0]

(***************************************************************************)
(* VideoViewerPi.parse_input: a chain of ifs, each falling through to the  *)
(* next when its pattern does not match.                                   *)
(***************************************************************************)
ParseInputFile(u) ==
    IF isfile(u) THEN MkSpec("file", <<>>, <<>>, u)
    ELSE Raised("ValueError")

ParseInputRtsp(u) ==
    IF startswith(u, RtspPrefix) THEN MkSpec("rtsp", <<>>, <<>>, u)
    ELSE ParseInputFile(u)

ParseInputMc(u) ==
    LET m == ReHostPort(u, McPrefix, FALSE)
    IN  IF startswith(u, McPrefix) /\ m.ok
        THEN MkSpec("multicast", m.host, <<m.port>>, <<>>)
        ELSE ParseInputRtsp(u)

\* a variant that rejects an rtp:// text its pattern does not match at once
ParseInputRtpStrict(u) ==
    LET m == ReHostPort(u, RtpPrefix, TRUE)
    IN  IF startswith(u, RtpPrefix)
        THEN IF m.ok THEN MkSpec("rtp", <<>>, <<m.port>>, <<>>)
             ELSE Raised("ValueError")
        ELSE ParseInputMc(u)

ParseInputRtp(u) ==
    LET m == ReHostPort(u, RtpPrefix, TRUE)
    IN  IF startswith(u, RtpPrefix) /\ m.ok
        THEN MkSpec("rtp", <<>>, <<m.port>>, <<>>)
        ELSE ParseInputMc(u)

ParseInputUdp(u) ==
    LET s == SliceFrom(u, 6)
        k == LastIndex(s, ":", Len(s))
        host == IF Contains(s, ":") THEN SubSeq(s, 1, k - 1) ELSE <<>>
        p == IF Contains(s, ":") THEN SubSeq(s, k + 1, Len(s)) ELSE s
        n == PyInt(p)
    IN  IF n = <<>> THEN Raised("ValueError")
        ELSE MkSpec("udp", host, n, <<>>)

parse_input(u) ==
    IF startswith(u, DevVideoPrefix) THEN MkSpec("v4l2", <<>>, <<>>, u)
    ELSE IF startswith(u, CsiPrefix)
         THEN MkSpec("csi", <<>>, <<>>, SplitSecond(u, CsiPrefix))
    ELSE IF startswith(u, UdpPrefix) THEN ParseInputUdp(u)
    ELSE ParseInputRtp(u)

(***************************************************************************)
(* VideoViewerPi.parse_output                                              *)
(***************************************************************************)
ParseOutputLiteral(u) ==
    IF u = LocalText THEN MkSpec("local", <<>>, <<>>, <<>>)
    ELSE IF startswith(u, SavePrefix)
         THEN MkSpec("save", <<>>, <<>>, SliceFrom(u, 7))
    ELSE IF u = HttpText THEN MkSpec("http", <<>>, <<>>, <<>>)
    ELSE IF u = AppsinkText THEN MkSpec("appsink", <<>>, <<>>, <<>>)
    ELSE Raised("ValueError")

ParseOutputMc(u) ==
    LET m == ReHostPort(u, McPrefix, FALSE)
    IN  IF startswith(u, McPrefix) /\ m.ok
        THEN MkSpec("multicast", m.host, <<m.port>>, <<>>)
        ELSE ParseOutputLiteral(u)

parse_output(u) ==
    LET m == ReHostPort(u, RtpPrefix, FALSE)
    IN  IF startswith(u, RtpPrefix) /\ m.ok
        THEN MkSpec("rtp", m.host, <<m.port>>, <<>>)
        ELSE ParseOutputMc(u)

(***************************************************************************)
(* VideoViewerPi.parse_resolution.  The argument is a text or None (the    *)
(* value argparse gives an option that is absent).                         *)
(***************************************************************************)
Absent == <<"<None>">>
Res1080 == <<"1","0","8","0">>
Res720 == <<"7","2","0">>
Res480 == <<"4","8","0">>
WxH1920 == <<"1","9","2","0","x","1","0","8","0">>
WxH1280 == <<"1","2","8","0","x","7","2","0">>
WxH640 == <<"6","4","0","x","4","8","0">>

\* the dict presets and presets.get(r, "")
presets == [k \in {Res1080, Res720, Res480} |->
               IF k = Res1080 THEN WxH1920
               ELSE IF k = Res720 THEN WxH1280
               ELSE WxH640]
PresetsGet(r) == IF r \in DOMAIN presets THEN presets[r] ELSE <<>>

\* a variant that rejects a preset it does not know
ParseResolutionStrict(r) ==
    IF r = Absent \/ r = <<>> THEN MkSpec("resolution", <<>>, <<>>, <<>>)
    ELSE IF Contains(r, "x") THEN MkSpec("resolution", <<>>, <<>>, r)
    ELSE IF r \in DOMAIN presets THEN MkSpec("resolution", <<>>, <<>>, presets[r])
    ELSE Raised("ValueError")

parse_resolution(r) ==
    IF r = Absent \/ r = <<>> THEN MkSpec("resolution", <<>>, <<>>, <<>>)
    ELSE IF Contains(r, "x") THEN MkSpec("resolution", <<>>, <<>>, r)
    ELSE MkSpec("resolution", <<>>, <<>>, PresetsGet(r))

(***************************************************************************)
(* VideoViewerPi.get_encoder: the stage text, or "ValueError" when it      *)
(* raises ValueError("Unsupported codec").                                 *)
(***************************************************************************)
JpegEnc == "jpegenc"
NvH264Enc == "nvh264enc insert-sps-pps=true"
V4l2H264Enc == "v4l2h264enc"
X264Enc == "x264enc tune=zerolatency byte-stream=true key-int-max=30"

\* a variant whose hardware branch does not fall back to software
GetEncoderNoFallback(codec, plat, hw) ==
    IF codec = "mjpeg" THEN JpegEnc
    ELSE IF codec = "h264"
         THEN IF hw
              THEN IF plat = "jetson" THEN NvH264Enc
                   ELSE IF plat = "rpi" THEN V4l2H264Enc
                   ELSE "ValueError"
              ELSE X264Enc
    ELSE "ValueError"

get_encoder(codec, plat, hw) ==
    IF codec = "mjpeg" THEN JpegEnc
    ELSE IF codec = "h264"
         THEN IF hw /\ plat = "jetson" THEN NvH264Enc
              ELSE IF hw /\ plat = "rpi" THEN V4l2H264Enc
              ELSE X264Enc
    ELSE "ValueError"

(***************************************************************************)
(* The texts the pure functions are applied to: every concatenation        *)
(* scheme . host . separator . port . trailer, and some literals.          *)
(***************************************************************************)
PortDigits == {"0", "9"}
PortTexts == UNION {[1..n -> PortDigits] : n \in 0..MaxPortLen}
Schemes == {<<>>, DevVideoPrefix, CsiPrefix, UdpPrefix, RtpPrefix, McPrefix,
            RtspPrefix, SavePrefix, <<"R","T","P",":","/","/">>}
Hosts == {<<>>, <<"@">>, <<"1",".","2",".","3",".","4">>, <<"c","a","m">>}
Separators == {<<>>, <<":">>}
Trailers == {<<>>, <<"x">>, <<"/","s">>}
GeneratedTexts ==
    {s \o h \o c \o p \o t :
        s \in Schemes, h \in Hosts, c \in Separators, p \in PortTexts, t \in Trailers}

UdpAny5000 == <<"u","d","p",":","/","/",":","5","0","0","0">>
Mc239 == <<"m","c",":","/","/","2","3","9",".","1",".","1",".","1",":","5","0","0","0">>
RtspCam == <<"r","t","s","p",":","/","/","c","a","m","/","s">>
NotAUri == <<"n","o","t","-","a","-","u","r","i">>
Udp65535 == <<"u","d","p",":","/","/",":","6","5","5","3","5">>
Udp65536 == <<"u","d","p",":","/","/",":","6","5","5","3","6">>
UdpNeg == <<"u","d","p",":","/","/",":","-","5">>
UdpPadded == <<"u","d","p",":","/","/",":"," ","9","0"," ">>
UdpUnderscore == <<"u","d","p",":","/","/",":","9","_","0">>
Rtp70000 == <<"r","t","p",":","/","/","1",".","2",".","3",".","4",":","7","0","0","0","0">>
RtpOut5000 == <<"r","t","p",":","/","/","1",".","2",".","3",".","4",":","5","0","0","0">>
SaveOut == <<"s","a","v","e",":","/","/","o","u","t",".","m","p","4">>
LiteralTexts ==
    {LocalText, HttpText, AppsinkText, <<"L","o","c","a","l">>,
     <<"l","o","c","a","l"," ">>, <<"H","T","T","P">>, <<"a","p","p","s","i","n","k","s">>,
     NotAUri, ClipMp4, UdpAny5000, Mc239, RtspCam, Udp65535, Udp65536, UdpNeg,
     UdpPadded, UdpUnderscore, Rtp70000, RtpOut5000, SaveOut,
     Res1080, Res720, Res480, WxH640, WxH1920, <<"x">>, <<"7","2","0","p">>,
     <<"c","s","i",":","/","/","0","c","s","i",":","/","/","1">>}
Texts == GeneratedTexts \cup LiteralTexts

Codecs == {"h264", "mjpeg", "h265"}
Platforms == {"rpi", "jetson", "generic"}

(***************************************************************************)
(* VideoViewerPi.build_pipeline: the graph description as the sequence of  *)
(* its stages (the text between the "!" of the launch line, properties     *)
(* dropped except those that tell two stages apart).  kind is "graph",     *)
(* "none" (the function returns None) or "raise".  The caps of resolution  *)
(* and fps are properties of the capture stage and are left out; the RTP   *)
(* caps of a network source are written as a stage after the source.       *)
(***************************************************************************)
RtpCapsJpeg == "application/x-rtp,encoding-name=JPEG,payload=26"
RtpCapsH264 == "application/x-rtp,encoding-name=H264,payload=96"

SourceStages(inp, in_c) ==
    IF inp.type \in {"v4l2", "csi"}
    THEN <<"v4l2src", "video/x-raw", "videoconvert">>
    ELSE IF inp.type = "file"
    THEN <<"filesrc", "decodebin", "videoconvert">>
    ELSE IF inp.type \in {"rtp", "multicast", "udp"}
    THEN <<IF inp.type = "multicast" THEN "udpsrc multicast-group" ELSE "udpsrc">>
         \o <<IF in_c = "mjpeg" THEN RtpCapsJpeg ELSE RtpCapsH264>>
         \o (IF in_c = "mjpeg"
             THEN <<"rtpjpegdepay", "jpegdec">>
             ELSE <<"rtph264depay", "h264parse", "avdec_h264">>)
         \o <<"videoconvert">>
    ELSE IF inp.type = "rtsp"
    THEN <<"rtspsrc", "queue", "rtph264depay", "h264parse", "avdec_h264",
           "videoconvert">>
    ELSE <<"ValueError">>

\* a builder that encodes for the local display too
BuildPipelineEncodesLocal(inp, outp, in_c, out_c, plat, hw) ==
    LET src == SourceStages(inp, in_c)
        enc == get_encoder(out_c, plat, hw)
    IN  IF src = <<"ValueError">> THEN [kind |-> "raise", stages |-> <<>>]
        ELSE IF outp.type \in {"local", "save", "rtp", "multicast"}
        THEN IF enc = "ValueError" THEN [kind |-> "raise", stages |-> <<>>]
             ELSE IF outp.type = "local"
             THEN [kind |-> "graph", stages |-> src \o <<enc, "autovideosink">>]
             ELSE IF outp.type = "save"
             THEN [kind |-> "graph", stages |-> src \o <<enc, "mp4mux", "filesink">>]
             ELSE IF outp.type = "rtp"
             THEN [kind |-> "graph", stages |-> src \o <<enc, "rtph264pay", "udpsink">>]
             ELSE [kind |-> "graph",
                   stages |-> src \o <<enc, "rtph264pay", "udpsink auto-multicast">>]
        ELSE [kind |-> "none", stages |-> <<>>]

build_pipeline(inp, outp, in_c, out_c, plat, hw) ==
    LET src == SourceStages(inp, in_c)
        enc == get_encoder(out_c, plat, hw)
    IN  IF src = <<"ValueError">> THEN [kind |-> "raise", stages |-> <<>>]
        ELSE IF outp.type = "local"
        THEN [kind |-> "graph", stages |-> src \o <<"autovideosink">>]
        ELSE IF outp.type \in {"save", "rtp", "multicast"}
        THEN IF enc = "ValueError" THEN [kind |-> "raise", stages |-> <<>>]
             ELSE IF outp.type = "save"
             THEN [kind |-> "graph", stages |-> src \o <<enc, "mp4mux", "filesink">>]
             ELSE IF outp.type = "rtp"
             THEN [kind |-> "graph", stages |-> src \o <<enc, "rtph264pay", "udpsink">>]
             ELSE [kind |-> "graph",
                   stages |-> src \o <<enc, "rtph264pay", "udpsink auto-multicast">>]
        ELSE [kind |-> "none", stages |-> <<>>]

\* VideoViewerPi.build_appsink_pipeline
build_appsink_pipeline(inp, plat) ==
    IF inp.type \in {"v4l2", "csi"}
    THEN IF plat = "jetson"
         THEN [kind |-> "graph",
               stages |-> <<"v4l2src", "video/x-raw(memory:NVMM)", "nvvidconv",
                            "video/x-raw,format=RGBA", "appsink">>]
         ELSE [kind |-> "graph",
               stages |-> <<"v4l2src", "video/x-raw", "videoconvert",
                            "video/x-raw,format=BGR", "appsink">>]
    ELSE [kind |-> "raise", stages |-> <<>>]

\* VideoViewerPi.build_http_pipeline: fixed H.264 depacketizers, JPEG out
build_http_pipeline(inp) ==
    LET t == inp.type
        tail == <<"jpegenc", "appsink">>
    IN  IF t \in {"v4l2", "csi"}
        THEN [kind |-> "graph",
              stages |-> <<"v4l2src", "video/x-raw", "videoconvert">> \o tail]
        ELSE IF t = "file"
        THEN [kind |-> "graph",
              stages |-> <<"filesrc", "decodebin", "videoconvert">> \o tail]
        ELSE IF t \in {"rtp", "udp"}
        THEN [kind |-> "graph",
              stages |-> <<"udpsrc", RtpCapsH264, "rtph264depay", "h264parse",
                           "avdec_h264", "videoconvert">> \o tail]
        ELSE IF t = "multicast"
        THEN [kind |-> "graph",
              stages |-> <<"udpsrc multicast-group", RtpCapsH264, "rtph264depay",
                           "h264parse", "avdec_h264", "videoconvert">> \o tail]
        ELSE IF t = "rtsp"
        THEN [kind |-> "graph",
              stages |-> <<"rtspsrc", "queue", "rtph264depay", "h264parse",
                           "avdec_h264", "videoconvert">> \o tail]
        ELSE [kind |-> "raise", stages |-> <<>>]

(***************************************************************************)
(* The session.                                                            *)
(***************************************************************************)
DevVideo0 == <<"/","d","e","v","/","v","i","d","e","o","0">>
Bogus == <<"b","o","g","u","s">>
UdpBad == <<"u","d","p",":","/","/",":","x">>
SessionInputs == {DevVideo0, UdpAny5000, ClipMp4, NotAUri, UdpBad}
SessionOutputs == {LocalText, SaveOut, HttpText, AppsinkText, Bogus}
Messages == {"EOS", "ERROR", "WARNING"}

\* Python's None in a slot that otherwise holds the bytes of an array
None == <<>>

\* mapinfo.data of sample n: FrameLen bytes, each written here as the number of
\* the sample it belongs to
Data(n) == [i \in 1..FrameLen |-> n]

\* a copy that is published before its last byte is written
CopyTruncated(arr) == [i \in DOMAIN arr |-> IF i = Len(arr) THEN 0 ELSE arr[i]]

\* np.frombuffer(data, dtype=np.uint8)[.reshape(...)].copy(): a new array with
\* the bytes of the mapped buffer
copy(arr) == [i \in DOMAIN arr |-> arr[i]]

\* a store that keeps the frame already in the slot
StoreIfEmpty(slot, arr) == IF slot = None THEN arr ELSE slot

\* self.frame = <array> / self.cuda_frame = <array>: the attribute is rebound
\* to the new array, whatever it referred to
StoreLatest(slot, arr) == arr

\* a get_cuda_frame that hands out the CPU frame while it has no GPU frame
GetCudaFrameOrFrame == IF cuda_frame = None THEN frame ELSE cuda_frame

\* VideoViewerPi.get_frame / get_cuda_frame: return self.frame / self.cuda_frame
get_frame == frame
get_cuda_frame == cuda_frame

\* positions of a capture thread
AtCheck == [at |-> "check", smp |-> 0, maps |-> 0]
NoThread == [at |-> "off", smp |-> 0, maps |-> 0]

\* a capture thread that ends at the first failed iteration
GiveUp(t) == [t EXCEPT !.at = "off", !.smp = 0]

\* capture_thread after a failed iteration: "continue", or the except clause
\* that prints and sleeps; either way the thread is back at the loop test and
\* the sample is dropped
Retry(t) == [t EXCEPT !.at = "check", !.smp = 0]

\* the instantiations the session holds a handle of
Held == {pipeline, http_pipeline} \ {0}
Playing(id) == insts[id].state = "PLAYING"
Newest == Len(insts)

\* a stop() without the "if self.http_pipeline" guard: the main pipeline is
\* set to NULL, then None has no set_state
StopUnguarded(I, p, h) ==
    [err |-> IF h = 0 THEN "AttributeError" ELSE "none",
     insts |-> [id \in DOMAIN I |->
                   IF id \in {p, h} THEN [I[id] EXCEPT !.state = "NULL"]
                   ELSE I[id]]]

\* VideoViewerPi.stop: set_state(NULL) on each handle that is not None
stop(I, p, h) ==
    [err |-> "none",
     insts |-> [id \in DOMAIN I |->
                   IF id \in {p, h} THEN [I[id] EXCEPT !.state = "NULL"]
                   ELSE I[id]]]

\* the engine after stop(): a pipeline that goes to NULL flushes its bus
AfterStop(r) ==
    /\ insts' = r.insts
    /\ bus' = IF Len(r.insts) > 0 /\ r.insts[Len(r.insts)].state = "NULL"
              THEN <<>> ELSE bus

\* an unparsable output text silently becomes the local display
StartOutputDefaultsLocal(u) ==
    IF parse_output(u).type \in ErrorTypes
    THEN MkSpec("local", <<>>, <<>>, <<>>)
    ELSE parse_output(u)

\* start(): out = self.parse_output(self.output_uri)
StartOutput(u) == parse_output(u)

\* start() ends by an exception raised before anything was created
StartRaises(e) ==
    /\ err' = e
    /\ last' = "start"
    /\ UNCHANGED <<sessionVars, engineVars, pc, cause, cthreads, captureVars,
                   serverVars>>

\* Gst.parse_launch of a description the engine accepts, then
\* set_state(PLAYING): a new instantiation with a new, empty bus
Launch(kind, stages) ==
    /\ Len(insts) < MaxInst
    /\ insts' = Append(insts, [kind |-> kind, state |-> "PLAYING", desc |-> stages])
    /\ bus' = <<>>
    /\ eos_sent' = FALSE
    /\ err' = "none"
    /\ cause' = "none"
    /\ last' = "start"

\* VideoViewerPi.start_appsink: returns once the capture thread is started
start_appsink(inp) ==
    LET g == build_appsink_pipeline(inp, platform)
    IN  IF g.kind = "raise" THEN StartRaises("ValueError")
        ELSE \E accepted \in BOOLEAN :
                IF ~accepted THEN StartRaises("GLibError")
                ELSE /\ Launch("appsink", g.stages)
                     /\ pipeline' = Len(insts) + 1
                     /\ running' = TRUE
                     /\ cthreads' = cthreads \cup {Len(insts) + 1}
                     /\ cap' = [cap EXCEPT ![Len(insts) + 1] = AtCheck]
                     /\ pc' = "ready"
                     /\ UNCHANGED <<http_pipeline, frame, cuda_frame, samples,
                                    lastcap, got, serverVars>>

\* VideoViewerPi.start_http up to self.loop.run(): the pipeline is launched and
\* the Flask server thread is started
start_http(inp) ==
    LET g == build_http_pipeline(inp)
    IN  IF g.kind = "raise" THEN StartRaises("ValueError")
        ELSE \E accepted \in BOOLEAN :
                IF ~accepted THEN StartRaises("GLibError")
                ELSE /\ Launch("http", g.stages)
                     /\ http_pipeline' = Len(insts) + 1
                     /\ servers' = servers + 1
                     /\ pc' = "http_loop"
                     /\ UNCHANGED <<pipeline, running, frame, cuda_frame, samples,
                                    cthreads, captureVars, clients>>

\* start(), main-graph branch, up to self.loop.run()
StartMain(inp, out) ==
    LET g == build_pipeline(inp, out, input_codec, output_codec, platform, hw_encoder)
    IN  IF g.kind = "raise" THEN StartRaises("ValueError")
        ELSE \E accepted \in BOOLEAN :
                IF ~accepted THEN StartRaises("GLibError")
                ELSE /\ Launch("main", g.stages)
                     /\ pipeline' = Len(insts) + 1
                     /\ pc' = "run_loop"
                     /\ UNCHANGED <<http_pipeline, running, frame, cuda_frame, samples,
                                    cthreads, captureVars, serverVars>>

\* VideoViewerPi.start, called by the owner of the session while no call is
\* in progress
StartCall ==
    /\ pc = "ready"
    /\ LET inp == parse_input(input_uri)
           out == StartOutput(output_uri)
       IN  IF inp.type \in ErrorTypes \/ out.type \in ErrorTypes
           THEN StartRaises("ValueError")
           ELSE IF out.type = "appsink" THEN start_appsink(inp)
           ELSE IF out.type = "http" THEN start_http(inp)
           ELSE StartMain(inp, out)
    /\ UNCHANGED <<parseVars, configVars>>

\* the engine posts a notification on the bus of the newest instantiation
EnginePost(m) ==
    /\ Newest > 0
    /\ Playing(Newest)
    /\ Len(bus) < MaxBus
    /\ bus' = Append(bus, m)
    /\ UNCHANGED <<parseVars, serverVars, captureVars, configVars, sessionVars, insts, eos_sent, samples,
                   controlVars>>

\* on_message while start() is in self.loop.run(): EOS and ERROR quit the
\* loop, run() returns, the finally clause calls stop() and start() returns;
\* a WARNING is printed and the loop goes on
OnMessage ==
    /\ pc = "run_loop"
    /\ bus # <<>>
    /\ IF Head(bus) \in {"EOS", "ERROR"}
       THEN LET r == stop(insts, pipeline, http_pipeline)
            IN  /\ AfterStop(r)
                /\ pc' = "ready"
                /\ err' = r.err
                /\ cause' = Head(bus)
       ELSE /\ bus' = Tail(bus)
            /\ UNCHANGED <<insts, pc, err, cause>>
    /\ UNCHANGED <<parseVars, serverVars, captureVars, configVars, sessionVars, eos_sent, samples, last,
                   cthreads>>

\* KeyboardInterrupt in self.loop.run() of start(): the except clause sends
\* the end-of-stream event and enters bus.timed_pop_filtered(CLOCK_TIME_NONE, EOS)
Interrupt ==
    /\ pc = "run_loop"
    /\ eos_sent' = TRUE
    /\ pc' = "drain_wait"
    /\ cause' = "interrupt"
    /\ UNCHANGED <<parseVars, serverVars, captureVars, configVars, sessionVars, insts, bus, samples, err,
                   last, cthreads>>

\* bus.timed_pop_filtered(CLOCK_TIME_NONE, EOS) takes the next message off the
\* bus: an EOS ends the wait, the finally clause calls stop() and start()
\* returns; any other message is dropped and the wait goes on
DrainPop ==
    /\ pc = "drain_wait"
    /\ bus # <<>>
    /\ IF Head(bus) = "EOS"
       THEN LET r == stop(insts, pipeline, http_pipeline)
            IN  /\ AfterStop(r)
                /\ pc' = "ready"
                /\ err' = r.err
       ELSE /\ bus' = Tail(bus)
            /\ UNCHANGED <<insts, pc, err>>
    /\ UNCHANGED <<parseVars, serverVars, captureVars, configVars, sessionVars, eos_sent, samples, cause,
                   last, cthreads>>

\* a second KeyboardInterrupt, raised inside the except clause: the finally
\* clause calls stop() and the exception leaves start()
DrainInterrupt ==
    /\ pc = "drain_wait"
    /\ LET r == stop(insts, pipeline, http_pipeline)
       IN  /\ AfterStop(r)
           /\ err' = IF r.err = "none" THEN "KeyboardInterrupt" ELSE r.err
    /\ pc' = "ready"
    /\ UNCHANGED <<parseVars, serverVars, captureVars, configVars, sessionVars, eos_sent, samples, cause,
                   last, cthreads>>

\* on_http_message while start_http() is in self.loop.run(): EOS and ERROR
\* quit the loop and start_http() and start() return; a WARNING is printed
HttpOnMessage ==
    /\ pc = "http_loop"
    /\ bus # <<>>
    /\ bus' = Tail(bus)
    /\ IF Head(bus) \in {"EOS", "ERROR"}
       THEN /\ pc' = "ready"
            /\ cause' = Head(bus)
       ELSE UNCHANGED <<pc, cause>>
    /\ UNCHANGED <<parseVars, serverVars, captureVars, configVars, sessionVars, insts, eos_sent, samples,
                   err, last, cthreads>>

\* KeyboardInterrupt in self.loop.run() of start_http(): stop(), then return
HttpInterrupt ==
    /\ pc = "http_loop"
    /\ LET r == stop(insts, pipeline, http_pipeline)
       IN  /\ AfterStop(r)
           /\ err' = r.err
    /\ pc' = "ready"
    /\ cause' = "interrupt"
    /\ UNCHANGED <<parseVars, serverVars, captureVars, configVars, sessionVars, eos_sent, samples, last,
                   cthreads>>

\* __main__, appsink branch: KeyboardInterrupt in "while viewer.running":
\* viewer.running = False, then viewer.stop()
CliAppsinkInterrupt ==
    /\ pc = "ready"
    /\ pipeline # 0
    /\ insts[pipeline].kind = "appsink"
    /\ running
    /\ running' = FALSE
    /\ LET r == stop(insts, pipeline, http_pipeline)
       IN  /\ AfterStop(r)
           /\ err' = r.err
    /\ cause' = "interrupt"
    /\ last' = "stop"
    /\ UNCHANGED <<parseVars, serverVars, captureVars, configVars, pipeline, http_pipeline, frame, cuda_frame,
                   eos_sent, samples, pc, cthreads>>

\* VideoViewerPi.stop called by the owner of the session
CallStop ==
    /\ pc = "ready"
    /\ LET r == stop(insts, pipeline, http_pipeline)
       IN  /\ AfterStop(r)
           /\ err' = r.err
    /\ last' = "stop"
    /\ UNCHANGED <<parseVars, serverVars, captureVars, configVars, sessionVars, eos_sent, samples, pc, cause,
                   cthreads>>

\* capture_thread: "while self.running" reads True
CaptureCheck(id) ==
    /\ id \in cthreads
    /\ cap[id].at = "check"
    /\ running
    /\ cap' = [cap EXCEPT ![id].at = "pull"]
    /\ UNCHANGED <<parseVars, serverVars, configVars, sessionVars, engineVars, controlVars,
                   lastcap, got>>

\* capture_thread: appsink.emit("pull-sample").  On a playing instantiation
\* the call blocks until the engine hands out the next sample, or returns None
\* (the stream has ended); on a released one it returns None at once.  On
\* None the thread sleeps and goes back to the loop test
CapturePull(id) ==
    /\ id \in cthreads
    /\ cap[id].at = "pull"
    /\ \E handed \in BOOLEAN :
          IF handed
          THEN /\ Playing(id)
               /\ samples < MaxSamples
               /\ samples' = samples + 1
               /\ cap' = [cap EXCEPT ![id].at = "sample", ![id].smp = samples + 1]
          ELSE /\ cap' = [cap EXCEPT ![id] = Retry(cap[id])]
               /\ UNCHANGED samples
    /\ UNCHANGED <<parseVars, serverVars, configVars, sessionVars, insts, bus, eos_sent,
                   controlVars, lastcap, got>>

\* capture_thread: sample.get_buffer() and buffer.map(READ); a missing buffer
\* or a failed map ends the iteration ("continue")
CaptureMap(id) ==
    /\ id \in cthreads
    /\ cap[id].at = "sample"
    /\ \E outcome \in {"mapped", "nobuffer", "mapfailed"} :
          cap' = IF outcome = "mapped"
                 THEN [cap EXCEPT ![id].at = "mapped", ![id].maps = @ + 1]
                 ELSE [cap EXCEPT ![id] = Retry(cap[id])]
    /\ UNCHANGED <<parseVars, serverVars, configVars, sessionVars, engineVars, controlVars,
                   lastcap, got>>

\* capture_thread: the array is made from the mapped bytes and stored in
\* self.frame; an exception in frombuffer / reshape / copy (raised = TRUE) is
\* caught by the except clause, which does not unmap, and the iteration ends
\* without a write
CaptureFrame(id) ==
    /\ id \in cthreads
    /\ cap[id].at = "mapped"
    /\ \E raised \in BOOLEAN :
          IF raised
          THEN /\ cap' = [cap EXCEPT ![id] = Retry(cap[id])]
               /\ UNCHANGED <<frame, lastcap>>
          ELSE /\ frame' = StoreLatest(frame, copy(Data(cap[id].smp)))
               /\ lastcap' = cap[id].smp
               /\ cap' = [cap EXCEPT ![id].at =
                             IF platform = "jetson" THEN "cuda" ELSE "unmap"]
    /\ UNCHANGED <<parseVars, serverVars, configVars, pipeline, http_pipeline, running, cuda_frame,
                   engineVars, controlVars, got>>

\* capture_thread, Jetson branch: self.cuda_frame = arr.copy()
CaptureCuda(id) ==
    /\ id \in cthreads
    /\ cap[id].at = "cuda"
    /\ cuda_frame' = StoreLatest(cuda_frame, copy(Data(cap[id].smp)))
    /\ cap' = [cap EXCEPT ![id].at = "unmap"]
    /\ UNCHANGED <<parseVars, serverVars, configVars, pipeline, http_pipeline, running, frame,
                   engineVars, controlVars, lastcap, got>>

\* capture_thread: buffer.unmap(mapinfo), sleep, back to the loop test
CaptureUnmap(id) ==
    /\ id \in cthreads
    /\ cap[id].at = "unmap"
    /\ cap' = [cap EXCEPT ![id].at = "check", ![id].smp = 0, ![id].maps = @ - 1]
    /\ UNCHANGED <<parseVars, serverVars, configVars, sessionVars, engineVars, controlVars,
                   lastcap, got>>

\* capture_thread: "while self.running" reads False and the thread ends
CaptureExit(id) ==
    /\ id \in cthreads
    /\ cap[id].at = "check"
    /\ ~running
    /\ cthreads' = cthreads \ {id}
    /\ cap' = [cap EXCEPT ![id] = NoThread]
    /\ UNCHANGED <<parseVars, serverVars, configVars, sessionVars, engineVars, pc, err, cause, last,
                   lastcap, got>>

\* a connection slot of /stream with no generator
NoClient == [at |-> "off", sink |-> 0, smp |-> 0, maps |-> 0, chunks |-> <<>>]

\* the JPEG bytes of sample n, as mapinfo.data returns them
Jpeg(n) == [i \in 1..FrameLen |-> n]

\* one part of the multipart/x-mixed-replace response
Chunk(data) ==
    <<"--frame\r\nContent-Type: image/jpeg\r\n\r\n">> \o data \o <<"\r\n">>

\* a generator whose chunk goes to every open connection
YieldedToAll(cl, c) ==
    [d \in DOMAIN cl |->
        IF d = c
        THEN [cl[c] EXCEPT !.at = "yield", !.maps = @ + 1,
                           !.chunks = Append(@, Chunk(Jpeg(cl[c].smp)))]
        ELSE IF cl[d].at # "off"
             THEN [cl[d] EXCEPT !.chunks = Append(@, Chunk(Jpeg(cl[c].smp)))]
             ELSE cl[d]]

\* generate(): the buffer is mapped and the chunk made of its bytes is
\* yielded to the response of connection c; the generator is suspended at the
\* yield
Yielded(cl, c) ==
    [cl EXCEPT ![c].at = "yield", ![c].maps = @ + 1,
               ![c].chunks = Append(@, Chunk(Jpeg(cl[c].smp)))]

\* GET /stream: stream() looks up the appsink of self.http_pipeline and
\* returns a Response over a new generator; the server thread of this
\* connection iterates it
ClientConnect(c) ==
    /\ servers > 0
    /\ http_pipeline # 0
    /\ clients[c].at = "off"
    /\ clients' = [clients EXCEPT ![c] = [NoClient EXCEPT !.at = "pull",
                                                          !.sink = http_pipeline]]
    /\ UNCHANGED <<parseVars, configVars, sessionVars, engineVars, controlVars,
                   captureVars, servers>>

\* generate(): appsink.emit("pull-sample") hands the next sample to this
\* generator and to no other (the appsink keeps one sample, max-buffers=1
\* drop=true, and a pull takes it out); on None the generator pulls again
ClientPull(c) ==
    /\ clients[c].at = "pull"
    /\ Playing(clients[c].sink)
    /\ samples < MaxSamples
    /\ samples' = samples + 1
    /\ clients' = [clients EXCEPT ![c].at = "sample", ![c].smp = samples + 1]
    /\ UNCHANGED <<parseVars, configVars, sessionVars, insts, bus, eos_sent, controlVars,
                   captureVars, servers>>

\* generate(): buf.map(READ); if ok the chunk is yielded, otherwise the sample
\* is dropped and the generator pulls again
ClientYield(c) ==
    /\ clients[c].at = "sample"
    /\ \E ok \in BOOLEAN :
          clients' = IF ok THEN Yielded(clients, c)
                     ELSE [clients EXCEPT ![c].at = "pull", ![c].smp = 0]
    /\ UNCHANGED <<parseVars, configVars, sessionVars, engineVars, controlVars,
                   captureVars, servers>>

\* generate() is resumed after the server has written the chunk:
\* buf.unmap(mapinfo), then the next turn of "while True"
ClientResume(c) ==
    /\ clients[c].at = "yield"
    /\ clients' = [clients EXCEPT ![c].at = "pull", ![c].smp = 0, ![c].maps = @ - 1]
    /\ UNCHANGED <<parseVars, configVars, sessionVars, engineVars, controlVars,
                   captureVars, servers>>

\* the client disconnects: the write of the chunk fails and the server closes
\* the generator, which is suspended at the yield; GeneratorExit is raised
\* there and the statements after the yield do not run
ClientDisconnect(c) ==
    /\ clients[c].at = "yield"
    /\ clients' = [clients EXCEPT ![c].at = "off", ![c].smp = 0]
    /\ UNCHANGED <<parseVars, configVars, sessionVars, engineVars, controlVars,
                   captureVars, servers>>

\* VideoViewerPi.get_frame, called by any thread at any time
GetFrame ==
    /\ got' = [fn |-> "get_frame", val |-> get_frame]
    /\ UNCHANGED <<parseVars, serverVars, configVars, sessionVars, engineVars, controlVars,
                   cap, lastcap>>

\* VideoViewerPi.get_cuda_frame, called by any thread at any time
GetCudaFrame ==
    /\ got' = [fn |-> "get_cuda_frame", val |-> get_cuda_frame]
    /\ UNCHANGED <<parseVars, serverVars, configVars, sessionVars, engineVars, controlVars,
                   cap, lastcap>>

\* VideoViewerPi.__init__
Init ==
    /\ text = <<>>
    /\ call = "none"
    /\ result = NoResult
    /\ input_uri \in SessionInputs
    /\ output_uri \in SessionOutputs
    /\ input_codec = "h264"
    /\ output_codec \in Codecs
    /\ hw_encoder \in BOOLEAN
    \* the http and appsink builders read neither output_codec nor hw_encoder:
    \* these sessions are run with the defaults of the constructor
    /\ output_uri \in {HttpText, AppsinkText} => (output_codec = "h264" /\ ~hw_encoder)
    /\ platform \in Platforms
    \* build_appsink_pipeline and capture_thread tell only jetson from the rest,
    \* and the rest runs jetson's steps without the second store: here appsink
    \* sessions run on jetson, SpecCapture has them on every platform
    /\ output_uri = AppsinkText => platform = "jetson"
    /\ pipeline = 0
    /\ http_pipeline = 0
    /\ running = FALSE
    /\ frame = None
    /\ cuda_frame = None
    /\ insts = <<>>
    /\ bus = <<>>
    /\ eos_sent = FALSE
    /\ samples = 0
    /\ pc = "ready"
    /\ err = "none"
    /\ cause = "none"
    /\ last = "none"
    /\ cthreads = {}
    /\ cap = [id \in 1..MaxInst |-> NoThread]
    /\ lastcap = 0
    /\ got = [fn |-> "none", val |-> None]
    /\ servers = 0
    /\ clients = [c \in 1..MaxClients |-> NoClient]

Next ==
    \/ StartCall
    \/ \E m \in Messages : EnginePost(m)
    \/ OnMessage
    \/ Interrupt
    \/ DrainPop
    \/ DrainInterrupt
    \/ HttpOnMessage
    \/ HttpInterrupt
    \/ CliAppsinkInterrupt
    \/ CallStop
    \/ \E id \in 1..MaxInst : CaptureCheck(id)
    \/ \E id \in 1..MaxInst : CapturePull(id)
    \/ \E id \in 1..MaxInst : CaptureMap(id)
    \/ \E id \in 1..MaxInst : CaptureFrame(id)
    \/ \E id \in 1..MaxInst : CaptureCuda(id)
    \/ \E id \in 1..MaxInst : CaptureUnmap(id)
    \/ \E id \in 1..MaxInst : CaptureExit(id)

Spec == Init /\ [][Next]_vars

\* What the scheduling guarantees: the GLib main loop dispatches a message
\* that waits on the bus, timed_pop_filtered takes a waiting message, and the
\* capture threads keep running.  Nothing obliges the engine to post a
\* message, the user to interrupt, or the owner to call start() or stop().
Fairness ==
    /\ WF_vars(OnMessage)
    /\ WF_vars(DrainPop)
    /\ WF_vars(HttpOnMessage)
    /\ \A id \in 1..MaxInst : WF_vars(CaptureCheck(id))
    /\ \A id \in 1..MaxInst : WF_vars(CapturePull(id))
    /\ \A id \in 1..MaxInst : WF_vars(CaptureMap(id))
    /\ \A id \in 1..MaxInst : WF_vars(CaptureFrame(id))
    /\ \A id \in 1..MaxInst : WF_vars(CaptureCuda(id))
    /\ \A id \in 1..MaxInst : WF_vars(CaptureUnmap(id))
    /\ \A id \in 1..MaxInst : WF_vars(CaptureExit(id))

FairSpec == Spec /\ Fairness

(***************************************************************************)
(* The AppSink session with its readers: SpecCapture runs the sessions     *)
(* that have a capture thread (camera input, appsink output) together with *)
(* callers of get_frame / get_cuda_frame.  The bus of an AppSink pipeline  *)
(* is never read, so the notifications of the engine are left out here.    *)
(***************************************************************************)
InitCapture ==
    /\ text = <<>>
    /\ call = "none"
    /\ result = NoResult
    /\ input_uri = DevVideo0
    /\ output_uri = AppsinkText
    /\ input_codec = "h264"
    /\ output_codec = "h264"
    /\ hw_encoder = FALSE
    /\ platform \in Platforms
    /\ pipeline = 0
    /\ http_pipeline = 0
    /\ running = FALSE
    /\ frame = None
    /\ cuda_frame = None
    /\ insts = <<>>
    /\ bus = <<>>
    /\ eos_sent = FALSE
    /\ samples = 0
    /\ pc = "ready"
    /\ err = "none"
    /\ cause = "none"
    /\ last = "none"
    /\ cthreads = {}
    /\ cap = [id \in 1..MaxInst |-> NoThread]
    /\ lastcap = 0
    /\ got = [fn |-> "none", val |-> None]
    /\ servers = 0
    /\ clients = [c \in 1..MaxClients |-> NoClient]

NextCapture ==
    \/ StartCall
    \/ CallStop
    \/ CliAppsinkInterrupt
    \/ \E id \in 1..MaxInst : CaptureCheck(id)
    \/ \E id \in 1..MaxInst : CapturePull(id)
    \/ \E id \in 1..MaxInst : CaptureMap(id)
    \/ \E id \in 1..MaxInst : CaptureFrame(id)
    \/ \E id \in 1..MaxInst : CaptureCuda(id)
    \/ \E id \in 1..MaxInst : CaptureUnmap(id)
    \/ \E id \in 1..MaxInst : CaptureExit(id)
    \/ GetFrame
    \/ GetCudaFrame

SpecCapture == InitCapture /\ [][NextCapture]_vars

(***************************************************************************)
(* HTTP sessions with their clients: a camera is relayed to the /stream    *)
(* endpoint and up to MaxClients connections pull from its appsink.        *)
(***************************************************************************)
InitHttp ==
    /\ text = <<>>
    /\ call = "none"
    /\ result = NoResult
    /\ input_uri = DevVideo0
    /\ output_uri = HttpText
    /\ input_codec = "h264"
    /\ output_codec = "h264"
    /\ hw_encoder = FALSE
    /\ platform \in Platforms
    /\ pipeline = 0
    /\ http_pipeline = 0
    /\ running = FALSE
    /\ frame = None
    /\ cuda_frame = None
    /\ insts = <<>>
    /\ bus = <<>>
    /\ eos_sent = FALSE
    /\ samples = 0
    /\ pc = "ready"
    /\ err = "none"
    /\ cause = "none"
    /\ last = "none"
    /\ cthreads = {}
    /\ cap = [id \in 1..MaxInst |-> NoThread]
    /\ lastcap = 0
    /\ got = [fn |-> "none", val |-> None]
    /\ servers = 0
    /\ clients = [c \in 1..MaxClients |-> NoClient]

NextHttp ==
    \/ StartCall
    \/ HttpInterrupt
    \/ \E c \in 1..MaxClients :
          \/ ClientConnect(c)
          \/ ClientPull(c)
          \/ ClientYield(c)
          \/ ClientResume(c)
          \/ ClientDisconnect(c)

SpecHttp == InitHttp /\ [][NextHttp]_vars

(***************************************************************************)
(* The pure functions on their own: SpecParse applies parse_input,         *)
(* parse_output and get_encoder to every text and argument of the bounded  *)
(* sets.  The session is not started here.                                 *)
(***************************************************************************)
InitParse ==
    /\ text \in Texts
    /\ call = "none"
    /\ result = NoResult
    /\ input_uri = DevVideo0
    /\ output_uri = LocalText
    /\ input_codec = "h264"
    /\ output_codec = "h264"
    /\ hw_encoder = FALSE
    /\ platform = "generic"
    /\ pipeline = 0
    /\ http_pipeline = 0
    /\ running = FALSE
    /\ frame = None
    /\ cuda_frame = None
    /\ insts = <<>>
    /\ bus = <<>>
    /\ eos_sent = FALSE
    /\ samples = 0
    /\ pc = "ready"
    /\ err = "none"
    /\ cause = "none"
    /\ last = "none"
    /\ cthreads = {}
    /\ cap = [id \in 1..MaxInst |-> NoThread]
    /\ lastcap = 0
    /\ got = [fn |-> "none", val |-> None]
    /\ servers = 0
    /\ clients = [c \in 1..MaxClients |-> NoClient]

DoParseInput ==
    /\ call = "none"
    /\ call' = "parse_input"
    /\ result' = parse_input(text)
    /\ UNCHANGED <<text, configVars, sessionVars, engineVars, controlVars, captureVars, serverVars>>

DoParseOutput ==
    /\ call = "none"
    /\ call' = "parse_output"
    /\ result' = parse_output(text)
    /\ UNCHANGED <<text, configVars, sessionVars, engineVars, controlVars, captureVars, serverVars>>

\* get_encoder reads self.hw_encoder and self.platform and its argument; it
\* reads no text, so it is applied from the empty text only
DoGetEncoder ==
    /\ call = "none"
    /\ text = <<>>
    /\ call' = "get_encoder"
    /\ \E c \in Codecs, p \in Platforms, hw \in BOOLEAN :
          /\ output_codec' = c
          /\ platform' = p
          /\ hw_encoder' = hw
          /\ result' = IF get_encoder(c, p, hw) = "ValueError"
                       THEN Raised("ValueError")
                       ELSE MkSpec("encoder", <<>>, <<>>, <<get_encoder(c, p, hw)>>)
    /\ UNCHANGED <<text, input_uri, output_uri, input_codec, sessionVars, engineVars,
                   controlVars, captureVars, serverVars>>

\* parse_resolution applied to the text, and to None from the empty text
DoParseResolution ==
    /\ call = "none"
    /\ call' = "parse_resolution"
    /\ \E r \in {text} \cup (IF text = <<>> THEN {Absent} ELSE {}) :
          /\ text' = r
          /\ result' = parse_resolution(r)
    /\ UNCHANGED <<configVars, sessionVars, engineVars, controlVars, captureVars, serverVars>>

\* the texts the builders are applied to: one of each input and output variant
Csi0 == <<"c","s","i",":","/","/","0">>
RtpIn5000 == <<"r","t","p",":","/","/","@",":","5","0","0","0">>
BuildInputs == {DevVideo0, Csi0, ClipMp4, UdpAny5000, RtpIn5000, Mc239, RtspCam}
BuildOutputs == {LocalText, SaveOut, RtpOut5000, Mc239, HttpText, AppsinkText}
InputCodecs == {"h264", "mjpeg"}

\* what a builder returned, as a result record
GraphResult(g) ==
    IF g.kind = "raise" THEN Raised("ValueError")
    ELSE MkSpec(g.kind, <<>>, <<>>, g.stages)

\* build_pipeline applied to the specs of an input and an output text under a
\* configuration
DoBuildPipeline ==
    /\ call = "none"
    /\ text = <<>>
    /\ call' = "build_pipeline"
    /\ \E i \in BuildInputs, o \in BuildOutputs, ic \in InputCodecs, oc \in Codecs,
          p \in Platforms, hw \in BOOLEAN :
          /\ input_uri' = i
          /\ output_uri' = o
          /\ input_codec' = ic
          /\ output_codec' = oc
          /\ platform' = p
          /\ hw_encoder' = hw
          /\ result' = GraphResult(build_pipeline(parse_input(i), parse_output(o),
                                                  ic, oc, p, hw))
    /\ UNCHANGED <<text, sessionVars, engineVars, controlVars, captureVars, serverVars>>

\* build_http_pipeline applied to the spec of an input text; self.input_codec
\* is a field of the object the method belongs to
DoBuildHttpPipeline ==
    /\ call = "none"
    /\ text = <<>>
    /\ call' = "build_http_pipeline"
    /\ \E i \in BuildInputs, ic \in InputCodecs :
          /\ input_uri' = i
          /\ input_codec' = ic
          /\ result' = GraphResult(build_http_pipeline(parse_input(i)))
    /\ UNCHANGED <<text, output_uri, output_codec, hw_encoder, platform, sessionVars,
                   engineVars, controlVars, captureVars, serverVars>>

NextParse ==
    \/ DoBuildPipeline
    \/ DoBuildHttpPipeline
    \/ DoParseInput
    \/ DoParseOutput
    \/ DoGetEncoder
    \/ DoParseResolution

SpecParse == InitParse /\ [][NextParse]_vars

(***************************************************************************)
(* video-viewerPi.py, the script the class was made from: its parsers and  *)
(* its build_pipeline, a module-level function that works on the global    *)
(* http_pipeline.  SpecLegacy applies build_pipeline to the specs of the   *)
(* texts the script's parsers accept, under every configuration.           *)
(***************************************************************************)
LegacyParseInputMc(u) ==
    LET m == ReHostPort(u, McPrefix, FALSE)
    IN  IF startswith(u, McPrefix) /\ m.ok
        THEN MkSpec("multicast", m.host, <<m.port>>, <<>>)
        ELSE ParseInputFile(u)

LegacyParseInputRtp(u) ==
    LET m == ReHostPort(u, RtpPrefix, TRUE)
    IN  IF startswith(u, RtpPrefix) /\ m.ok
        THEN MkSpec("rtp", <<>>, <<m.port>>, <<>>)
        ELSE LegacyParseInputMc(u)

legacy_parse_input(u) ==
    IF startswith(u, DevVideoPrefix) THEN MkSpec("v4l2", <<>>, <<>>, u)
    ELSE IF startswith(u, CsiPrefix) THEN MkSpec("csi", <<>>, <<>>, SliceFrom(u, 6))
    ELSE IF startswith(u, UdpPrefix) THEN ParseInputUdp(u)
    ELSE LegacyParseInputRtp(u)

LegacyParseOutputLiteral(u) ==
    IF u = LocalText THEN MkSpec("local", <<>>, <<>>, <<>>)
    ELSE IF startswith(u, SavePrefix)
         THEN MkSpec("save", <<>>, <<>>, SliceFrom(u, 7))
    ELSE IF u = HttpText THEN MkSpec("http", <<>>, <<>>, <<>>)
    ELSE Raised("ValueError")

LegacyParseOutputMc(u) ==
    LET m == ReHostPort(u, McPrefix, FALSE)
    IN  IF startswith(u, McPrefix) /\ m.ok
        THEN MkSpec("multicast", m.host, <<m.port>>, <<>>)
        ELSE LegacyParseOutputLiteral(u)

legacy_parse_output(u) ==
    LET m == ReHostPort(u, RtpPrefix, FALSE)
    IN  IF startswith(u, RtpPrefix) /\ m.ok
        THEN MkSpec("rtp", m.host, <<m.port>>, <<>>)
        ELSE LegacyParseOutputMc(u)

LegacySourceStages(inp, in_c) ==
    IF inp.type \in {"v4l2", "csi"}
    THEN <<"v4l2src", "video/x-raw", "videoconvert">>
    ELSE IF inp.type = "file"
    THEN <<"filesrc", "decodebin", "videoconvert">>
    ELSE IF inp.type \in {"rtp", "multicast", "udp"}
    THEN <<IF inp.type = "multicast" THEN "udpsrc multicast-group" ELSE "udpsrc">>
         \o <<IF in_c = "mjpeg" THEN RtpCapsJpeg ELSE RtpCapsH264>>
         \o (IF in_c = "mjpeg"
             THEN <<"rtpjpegdepay", "jpegdec">>
             ELSE <<"rtph264depay", "avdec_h264">>)
         \o <<"videoconvert">>
    ELSE <<"ValueError">>

\* the pipeline the http branch of build_pipeline launches itself
LegacyHttpStages ==
    <<"v4l2src", "image/jpeg", "jpegdec", "videoconvert", "jpegenc", "queue", "appsink">>

\* build_pipeline of video-viewerPi.py: what it returns (kind, stages) or
\* raises (kind "raise", the exception in error), and in launched the stages of
\* the pipeline it creates and sets PLAYING on the way (<<>> if none)
legacy_build_pipeline(inp, outp, in_c, out_c, plat, hw) ==
    LET src == LegacySourceStages(inp, in_c)
        enc == get_encoder(out_c, plat, hw)
        pay == IF out_c = "mjpeg" THEN "rtpjpegpay" ELSE "rtph264pay"
        Ret(k, st) == [kind |-> k, stages |-> st, error |-> "none", launched |-> <<>>]
        Raise(e) == [kind |-> "raise", stages |-> <<>>, error |-> e, launched |-> <<>>]
    IN  IF src = <<"ValueError">> THEN Raise("ValueError")
        ELSE IF outp.type = "local" THEN Ret("graph", src \o <<"autovideosink">>)
        ELSE IF outp.type = "http"
        THEN IF inp.type # "v4l2" THEN Raise("KeyError")
             ELSE [kind |-> "none", stages |-> <<>>, error |-> "none",
                   launched |-> LegacyHttpStages]
        ELSE IF enc = "ValueError" THEN Raise("ValueError")
        ELSE IF outp.type = "rtp" THEN Ret("graph", src \o <<enc, pay, "udpsink">>)
        ELSE IF outp.type = "multicast"
        THEN Ret("graph", src \o <<enc, pay, "udpsink auto-multicast">>)
        ELSE IF outp.type = "save" THEN Ret("graph", src \o <<enc, "mp4mux", "filesink">>)
        ELSE Raise("ValueError")

LegacyInputs == {DevVideo0, Csi0, ClipMp4, UdpAny5000, RtpIn5000, Mc239}
LegacyOutputs == {LocalText, SaveOut, RtpOut5000, Mc239, HttpText}

InitLegacy ==
    /\ text = <<>>
    /\ call = "none"
    /\ result = NoResult
    /\ input_uri \in LegacyInputs
    /\ output_uri \in LegacyOutputs
    /\ input_codec \in InputCodecs
    /\ output_codec \in Codecs
    /\ hw_encoder \in BOOLEAN
    /\ platform \in Platforms
    /\ pipeline = 0
    /\ http_pipeline = 0
    /\ running = FALSE
    /\ frame = None
    /\ cuda_frame = None
    /\ insts = <<>>
    /\ bus = <<>>
    /\ eos_sent = FALSE
    /\ samples = 0
    /\ pc = "ready"
    /\ err = "none"
    /\ cause = "none"
    /\ last = "none"
    /\ cthreads = {}
    /\ cap = [id \in 1..MaxInst |-> NoThread]
    /\ lastcap = 0
    /\ got = [fn |-> "none", val |-> None]
    /\ servers = 0
    /\ clients = [c \in 1..MaxClients |-> NoClient]

\* start_pipeline of video-viewerPi.py: pipeline_str = build_pipeline(inp, outp, ...).
\* On an http output the function launches the http pipeline, binds the global
\* http_pipeline to it, sets it PLAYING and starts the Flask server thread
\* before it returns None.
LegacyBuildPipeline ==
    /\ call = "none"
    /\ call' = "legacy_build_pipeline"
    /\ LET g == legacy_build_pipeline(legacy_parse_input(input_uri),
                                      legacy_parse_output(output_uri),
                                      input_codec, output_codec, platform, hw_encoder)
       IN  /\ result' = IF g.kind = "raise" THEN Raised(g.error)
                        ELSE MkSpec(g.kind, <<>>, <<>>, g.stages)
           /\ IF g.launched # <<>>
              THEN /\ insts' = Append(insts, [kind |-> "http", state |-> "PLAYING",
                                              desc |-> g.launched])
                   /\ http_pipeline' = Len(insts) + 1
                   /\ servers' = servers + 1
              ELSE UNCHANGED <<insts, http_pipeline, servers>>
    /\ UNCHANGED <<text, configVars, pipeline, running, frame, cuda_frame, bus,
                   eos_sent, samples, controlVars, captureVars, clients>>

NextLegacy == LegacyBuildPipeline

SpecLegacy == InitLegacy /\ [][NextLegacy]_vars

(***************************************************************************)
(* The grammar of section 4.2, stated by what a text looks like.           *)
(***************************************************************************)
AllIn(s, cls) == \A i \in 1..Len(s) : s[i] \in cls

\* the text begins with prefix, a host token, ":" and at least one digit
BeginsHostPort(u, prefix, atAllowed) ==
    \E a \in 1..Len(u) :
        /\ a > Len(prefix) + 1
        /\ a < Len(u)
        /\ SubSeq(u, 1, Len(prefix)) = prefix
        /\ u[a] = ":"
        /\ u[a + 1] \in Digits
        /\ LET h == SubSeq(u, Len(prefix) + 1, a - 1)
           IN  \/ AllIn(h, HostClass)
               \/ atAllowed /\ h = <<"@">>

\* the text is exactly prefix, a host token, ":" and a decimal numeral
IsHostPort(u, prefix) ==
    \E a \in 1..Len(u) :
        /\ a > Len(prefix) + 1
        /\ a < Len(u)
        /\ SubSeq(u, 1, Len(prefix)) = prefix
        /\ u[a] = ":"
        /\ AllIn(SubSeq(u, Len(prefix) + 1, a - 1), HostClass)
        /\ AllIn(SubSeq(u, a + 1, Len(u)), Digits)

\* the text after the first "://" (the whole text if it has none)
AfterScheme(u) ==
    LET marks == {k \in 1..(Len(u) - 2) : SubSeq(u, k, k + 2) = <<":", "/", "/">>}
    IN  IF marks = {} THEN u
        ELSE LET k == CHOOSE m \in marks : \A n \in marks : m <= n
             IN  SubSeq(u, k + 3, Len(u))

\* the port field of a URI: what follows the last ":" after the scheme (all
\* of it if there is no ":")
PortField(u) ==
    LET v == AfterScheme(u)
    IN  CHOOSE t \in {SubSeq(v, k, Len(v)) : k \in 1..(Len(v) + 1)} :
            /\ ~Contains(t, ":")
            /\ \/ Len(t) = Len(v)
               \/ v[Len(v) - Len(t)] = ":"

IsNumeral(t) == t # <<>> /\ AllIn(t, Digits)
ValidPorts == 0..65535

C2_PortsValid ==
    (call \in {"parse_input", "parse_output"} /\ result.port # <<>>) =>
        /\ result.port[1] \in ValidPorts
        /\ IsNumeral(PortField(text))

\* C3: parse_output accepts exactly the output grammar (rtp://host:port,
\* mc://host:port, local, save://<path>, http, appsink) and fails with
\* InvalidUri on every other text, a grammar form with trailing characters
\* included.
C3_ParseOutputExact ==
    call = "parse_output" =>
        LET u == text
            kind ==
                IF IsHostPort(u, RtpPrefix) THEN "rtp"
                ELSE IF IsHostPort(u, McPrefix) THEN "multicast"
                ELSE IF u = LocalText THEN "local"
                ELSE IF startswith(u, SavePrefix) THEN "save"
                ELSE IF u = HttpText THEN "http"
                ELSE IF u = AppsinkText THEN "appsink"
                ELSE "ValueError"
        IN  /\ result.type = kind
            /\ kind = "save" => result.arg = SubSeq(u, 8, Len(u))

\* the codec family of an encoder stage
Family(stage) == IF stage = JpegEnc THEN "mjpeg" ELSE "h264"

\* C4: get_encoder follows the decision table of section 4.3 on the whole
\* cross product of codec, platform and hardware flag, raises for no codec of
\* {h264, mjpeg}, raises ValueError (UnsupportedCodec) for any other codec,
\* and never returns a stage of another codec family than the one asked for.
C4_EncoderTable ==
    call = "get_encoder" =>
        LET c == output_codec
            table ==
                IF c = "mjpeg" THEN JpegEnc
                ELSE IF hw_encoder /\ platform = "jetson" THEN NvH264Enc
                ELSE IF hw_encoder /\ platform = "rpi" THEN V4l2H264Enc
                ELSE X264Enc
        IN  IF c \in {"h264", "mjpeg"}
            THEN /\ result = MkSpec("encoder", <<>>, <<>>, <<table>>)
                 /\ Family(result.arg[1]) = c
            ELSE result = Raised("ValueError")

\* C4, its case: hardware asked for on a generic platform falls back to the
\* software H.264 stage
C4_Witness ==
    /\ call = "get_encoder"
    /\ output_codec = "h264"
    /\ platform = "generic"
    /\ hw_encoder
    /\ result = MkSpec("encoder", <<>>, <<>>, <<X264Enc>>)

(***************************************************************************)
(* The session states of section 4.5, read off the fields of the session.  *)
(***************************************************************************)
Started == Len(insts) > 0
HeldReleased == \A id \in Held : insts[id].state = "NULL"
HeldPlaying == \E id \in Held : insts[id].state = "PLAYING"
Idle == pc = "ready" /\ insts = <<>> /\ Held = {}
Draining == pc = "drain_wait"
\* Stopped or Failed: no call in progress, and what was created is released
Terminal == pc = "ready" /\ Held # {} /\ HeldReleased
Failed == Terminal /\ cause = "ERROR"

BadInputs == {NotAUri, UdpBad}
BadOutputs == {Bogus}

\* C5: a session whose input or output text does not parse never leaves Idle:
\* start() ends at once with ValueError (InvalidUri), no instantiation exists,
\* nothing plays, no capture thread runs and running is false.
C5_ParseFailureStaysIdle ==
    (input_uri \in BadInputs \/ output_uri \in BadOutputs) =>
        /\ Idle
        /\ pipeline = 0
        /\ http_pipeline = 0
        /\ ~running
        /\ cthreads = {}
        /\ last = "start" => err = "ValueError"
        /\ last # "start" => err = "none"

\* C5, its case: start() was called with a good input and a bad output text
C5_Witness ==
    /\ input_uri = DevVideo0
    /\ output_uri = Bogus
    /\ last = "start"
    /\ err = "ValueError"
    /\ Idle

\* C6: once the drain has begun (interrupt during Running) the session
\* reaches Stopped with the instantiation released, whether or not the engine
\* ever delivers the end-of-stream message.
C6_DrainReachesStopped ==
    Draining ~> (pc = "ready" /\ HeldReleased)

\* C7: an Error notification taken off the bus while the main-graph session
\* is Running or Draining ends the run loop or the drain wait and the
\* instantiation is stopped.
C7_ErrorFails ==
    [][(/\ pc \in {"run_loop", "drain_wait"}
        /\ bus # <<>>
        /\ Head(bus) = "ERROR"
        /\ (OnMessage \/ DrainPop))
       => (/\ pc' = "ready"
           /\ insts'[pipeline].state = "NULL")]_vars

\* C8: in an HTTP-relay or AppSink session an Error or end-of-stream
\* notification of the engine leads to shutdown: the instantiation is set to
\* stopped, the capture loop is told to stop and the caller's wait ends.
C8_NotificationShutsDown ==
    (/\ Started
     /\ insts[Newest].kind \in {"http", "appsink"}
     /\ bus # <<>>
     /\ Head(bus) \in {"EOS", "ERROR"})
    ~> (pc = "ready" /\ HeldReleased /\ ~running)

\* C9: stop() called on a session that is Stopped or Failed changes nothing
\* and raises nothing, in every output mode.
C9_StopIdempotent ==
    [][(Terminal /\ CallStop)
       => (/\ UNCHANGED <<sessionVars, engineVars, pc, cause, cthreads>>
           /\ err' = "none")]_vars

\* C9, its case: a main-graph session that an Error ended (Failed), on which
\* stop() was then called again
C9_Witness ==
    /\ Failed
    /\ pipeline # 0
    /\ insts[pipeline].kind = "main"
    /\ last = "stop"
    /\ err = "none"

\* C10: Stopped and Failed are terminal: no step taken from a Stopped or
\* Failed session leaves it with a call in progress or a playing instantiation.
C10_TerminalIsFinal ==
    [][Terminal => (pc' = "ready" /\ ~HeldPlaying')]_vars

(***************************************************************************)
(* Ownership of the instantiations.                                        *)
(***************************************************************************)
PlayingInsts == {id \in 1..Len(insts) : Playing(id)}

\* C11: the session owns zero or one running instantiation at every moment:
\* of the instantiations it created at most one is playing, and every playing
\* one is held by a handle of the session (self.pipeline / self.http_pipeline).
C11_OneRunningInstantiation ==
    /\ Cardinality(PlayingInsts) <= 1
    /\ PlayingInsts \subseteq Held

(***************************************************************************)
(* The frame slot.                                                         *)
(***************************************************************************)
\* the complete frames the engine has handed out so far
CompleteFrames == {Data(n) : n \in 1..samples}
ReaderStep == GetFrame \/ GetCudaFrame
WriterStep == \E id \in 1..MaxInst : CaptureFrame(id) \/ CaptureCuda(id)

\* C12: latest wins: get_frame() returns the data of the sample whose store
\* into the slot completed last (None before the first), a single frame of
\* FrameLen bytes; with one capture loop the stores follow the order of the
\* samples, so that this is the Nth of N captured samples and never an earlier
\* one.
C12_LatestWins ==
    [][/\ GetFrame =>
            /\ got'.val = IF lastcap = 0 THEN None ELSE Data(lastcap)
            /\ Len(got'.val) \in {0, FrameLen}
       /\ Len(insts) = 1 => lastcap' >= lastcap]_vars

\* C12, its case: on a Jetson the first sample went through both stores, the
\* second was stored into self.frame, and get_frame() returned the second
C12_Witness ==
    /\ got = [fn |-> "get_frame", val |-> Data(2)]
    /\ lastcap = 2
    /\ frame = Data(2)
    /\ cuda_frame = Data(1)
    /\ Len(insts) = 1

\* C13: under every interleaving of the steps of the capture loop with the
\* readers, a reader obtains None or the complete bytes of one sample, and
\* only the capture loop changes self.frame and self.cuda_frame.
C13_AtomicWrite ==
    [][/\ ReaderStep => got'.val \in {None} \cup CompleteFrames
       /\ (frame' # frame \/ cuda_frame' # cuda_frame) => WriterStep]_vars

\* C13, its case: a reader holds the complete first frame while the slot has
\* already been rebound to the second
C13_Witness ==
    /\ got = [fn |-> "get_frame", val |-> Data(1)]
    /\ frame = Data(2)

\* C14: get_frame() and get_cuda_frame() return what the slot stores, None
\* before the first frame was captured (before start() too), and change
\* neither the slots nor the running flag nor any instantiation.
C14_PureReads ==
    [][/\ GetFrame => got'.val = frame
       /\ GetCudaFrame => got'.val = cuda_frame
       /\ ReaderStep =>
            /\ lastcap = 0 => got'.val = None
            /\ UNCHANGED <<sessionVars, engineVars, controlVars, cap, lastcap>>]_vars

\* C14, its case: get_cuda_frame() called where a CPU frame is stored and no
\* GPU frame is
C14_Witness ==
    /\ got = [fn |-> "get_cuda_frame", val |-> None]
    /\ frame # None
    /\ cuda_frame = None

(***************************************************************************)
(* Resolution presets.                                                     *)
(***************************************************************************)
\* a width, "x" and a height, each a decimal numeral
IsWxH(r) ==
    \E k \in 2..(Len(r) - 1) :
        /\ r[k] = "x"
        /\ AllIn(SubSeq(r, 1, k - 1), Digits)
        /\ AllIn(SubSeq(r, k + 1, Len(r)), Digits)

\* C15: parse_resolution never raises; a preset key gives its table entry, a
\* WxH token is returned unchanged, and an unknown preset (a text without "x"
\* that is no key), the empty text and None give the empty text.
C15_ParseResolution ==
    call = "parse_resolution" =>
        /\ result.type = "resolution"
        /\ text = Res1080 => result.arg = WxH1920
        /\ text = Res720 => result.arg = WxH1280
        /\ text = Res480 => result.arg = WxH640
        /\ IsWxH(text) => result.arg = text
        /\ (text \in {<<>>, Absent}) => result.arg = <<>>
        /\ (~Contains(text, "x") /\ text \notin {Res1080, Res720, Res480})
              => result.arg = <<>>

\* C15, its case: the unknown preset 999 gave the empty text
C15_Witness ==
    /\ call = "parse_resolution"
    /\ text = <<"9","9","9">>
    /\ result = MkSpec("resolution", <<>>, <<>>, <<>>)

(***************************************************************************)
(* The shape of a composed graph.                                          *)
(***************************************************************************)
EncoderStages == {JpegEnc, NvH264Enc, V4l2H264Enc, X264Enc}
SourceElements == {"v4l2src", "filesrc", "udpsrc", "udpsrc multicast-group", "rtspsrc"}
SinkElements == {"autovideosink", "filesink", "udpsink", "udpsink auto-multicast"}
Positions(g, set) == {i \in 1..Len(g) : g[i] \in set}

\* C16: a composed graph is one chain, the source stages first and the sink
\* stages after them: one source element, at the head, one sink element, at
\* the end; the source part holds no encoder; a local output is the display
\* sink with no encoder; save, rtp and multicast outputs hold exactly the stage
\* get_encoder selects, first of the sink stages (right after the source
\* stages, which end with videoconvert), followed by the muxer or the payloader
\* and the sink.
C16_GraphComposition ==
    (call = "build_pipeline" /\ result.type = "graph") =>
        LET g == result.arg
            out == parse_output(output_uri)
            encs == Positions(g, EncoderStages)
        IN  /\ Positions(g, SourceElements) = {1}
            /\ Positions(g, SinkElements) = {Len(g)}
            /\ out.type = "local" =>
                  /\ encs = {}
                  /\ g[Len(g)] = "autovideosink"
                  /\ g[Len(g) - 1] = "videoconvert"
            /\ out.type \in {"save", "rtp", "multicast"} =>
                  \E k \in 2..Len(g) :
                      /\ encs = {k}
                      /\ g[k] = get_encoder(output_codec, platform, hw_encoder)
                      /\ g[k - 1] = "videoconvert"
                      /\ Len(g) = k + 2
                      /\ out.type = "save" => <<g[k + 1], g[k + 2]>> = <<"mp4mux", "filesink">>
                      /\ out.type # "save" => g[k + 2] \in {"udpsink", "udpsink auto-multicast"}
            /\ out.type \in {"local", "save", "rtp", "multicast"}
            /\ (/\ input_uri = DevVideo0
                /\ output_uri = SaveOut
                /\ output_codec = "h264"
                /\ ~hw_encoder
                /\ platform = "generic")
               => g = <<"v4l2src", "video/x-raw", "videoconvert", X264Enc, "mp4mux",
                        "filesink">>

\* C16, its case: the graph built for /dev/video0 -> save://out.mp4 with h264,
\* no hardware, on a generic platform
C16_Witness ==
    /\ call = "build_pipeline"
    /\ input_uri = DevVideo0
    /\ output_uri = SaveOut
    /\ output_codec = "h264"
    /\ ~hw_encoder
    /\ platform = "generic"
    /\ result.type = "graph"
    /\ result.arg[4] = X264Enc

\* a call of a function that builds a graph description, of either file
BuildCall ==
    /\ call = "none"
    /\ call' \in {"build_pipeline", "legacy_build_pipeline"}

\* C17: building a graph description is pure: a call of build_pipeline creates
\* no instantiation, sets nothing playing, starts no thread and no HTTP server
\* and changes no session or global state; for an http or appsink output it
\* only returns the marker (None) that the mode has a builder of its own.
C17_BuildIsPure ==
    [][BuildCall =>
          /\ UNCHANGED <<sessionVars, engineVars, controlVars, cap, servers>>
          /\ output_uri' \in {HttpText, AppsinkText}
                => result' = MkSpec("none", <<>>, <<>>, <<>>)]_vars

Has(g, stage) == \E i \in 1..Len(g) : g[i] = stage

\* C18: the source stages every builder makes for a udp, rtp or multicast
\* input carry the RTP caps, the depacketizer and the decoder of the
\* configured input codec (JPEG for mjpeg, H.264 for h264) and none of the
\* other codec; a multicast input with local output is the multicast source
\* with that depacketizer and the display sink, with no encoder.
C18_DepacketizerOfInputCodec ==
    (/\ call \in {"build_pipeline", "build_http_pipeline"}
     /\ result.type = "graph"
     /\ parse_input(input_uri).type \in {"udp", "rtp", "multicast"}) =>
        LET g == result.arg
        IN  /\ input_codec = "mjpeg" =>
                  /\ Has(g, RtpCapsJpeg) /\ Has(g, "rtpjpegdepay") /\ Has(g, "jpegdec")
                  /\ ~Has(g, RtpCapsH264) /\ ~Has(g, "rtph264depay")
                  /\ ~Has(g, "avdec_h264")
            /\ input_codec = "h264" =>
                  /\ Has(g, RtpCapsH264) /\ Has(g, "rtph264depay") /\ Has(g, "avdec_h264")
                  /\ ~Has(g, RtpCapsJpeg) /\ ~Has(g, "rtpjpegdepay") /\ ~Has(g, "jpegdec")
            /\ (/\ call = "build_pipeline"
                /\ parse_input(input_uri).type = "multicast"
                /\ output_uri = LocalText) =>
                  /\ g[1] = "udpsrc multicast-group"
                  /\ g[Len(g)] = "autovideosink"
                  /\ Positions(g, EncoderStages) = {}

(***************************************************************************)
(* Shutdown.                                                               *)
(***************************************************************************)
\* the step sets instantiation id from PLAYING to NULL
Released(id) == Playing(id) /\ insts'[id].state = "NULL"

\* C19: on a user interrupt the capture loop is stopped first, then the
\* end-of-stream request is sent, then comes the wait, then the release: no
\* step of an interrupt releases an instantiation before the end-of-stream
\* request was sent or while its capture thread is still in its loop, and an
\* interrupt of a running main-graph session (a save-to-file session is one)
\* enters the drain wait with everything still playing.
C19_ShutdownOrder ==
    [][/\ \A id \in 1..Len(insts) :
             (Released(id) /\ cause' = "interrupt") => (eos_sent /\ id \notin cthreads)
       /\ (pc = "run_loop" /\ cause' = "interrupt") =>
             (pc' = "drain_wait" /\ eos_sent' /\ insts' = insts)]_vars

\* stop() is called on a session whose pipeline is an AppSink pipeline
StopOfAppsink ==
    /\ CallStop \/ CliAppsinkInterrupt
    /\ pipeline # 0
    /\ insts[pipeline].kind = "appsink"

\* C20: stopping an AppSink session stops its capture loop: whoever calls
\* stop(), the running flag is false afterwards, and no capture thread pulls
\* from an instantiation that has been released.
C20_StopStopsCapture ==
    [][/\ StopOfAppsink => ~running'
       /\ \A id \in 1..Len(insts) : CapturePull(id) => Playing(id)]_vars

(***************************************************************************)
(* Transient capture failures.                                             *)
(***************************************************************************)
\* a step of capture thread id that ends an iteration without a write: the
\* pull returned nothing, the buffer was missing, the map failed or the
\* conversion raised
FailedIteration(id) ==
    /\ CapturePull(id) \/ CaptureMap(id) \/ CaptureFrame(id)
    /\ cap'[id].at \notin {"sample", "mapped", "cuda", "unmap"}

\* the frame stored last, None before the first store
LastCaptured == IF lastcap = 0 THEN None ELSE Data(lastcap)

\* C21: a transient capture failure is never fatal and shows only as
\* staleness: a failed iteration leaves the capture thread alive and back at
\* its loop test, and leaves both slots exactly as they were, the CPU slot
\* still holding the frame captured last.
C21_FailureIsTransient ==
    [][\A id \in 1..MaxInst :
          FailedIteration(id) =>
             /\ id \in cthreads'
             /\ cap'[id].at = "check"
             /\ frame' = frame
             /\ cuda_frame' = cuda_frame
             /\ lastcap' = lastcap
             /\ frame' = LastCaptured']_vars

\* sample 1 is held, sample 2 was pulled and lost to a failure, and the only
\* capture thread is at its loop test again
C21_Witness ==
    /\ Len(insts) = 1
    /\ cthreads = {1}
    /\ running
    /\ cap[1].at = "check"
    /\ samples = 2
    /\ lastcap = 1
    /\ frame = Data(1)

(***************************************************************************)
(* Network packetizers.                                                    *)
(***************************************************************************)
\* the codec family of an encoder stage and of a payloader stage
EncoderFamily(stage) == IF stage = JpegEnc THEN "jpeg" ELSE "h264"
PayloaderFamily(stage) ==
    IF stage = "rtpjpegpay" THEN "jpeg"
    ELSE IF stage = "rtph264pay" THEN "h264"
    ELSE "none"

\* C23: in every graph composed for an rtp or multicast output the stage that
\* follows the encoder is a payloader of the encoder's codec family: the JPEG
\* payloader after the JPEG encoder, the H.264 payloader after an H.264
\* encoder, for both codecs, every platform and either hardware flag.
C23_PacketizerMatchesEncoder ==
    (/\ call = "build_pipeline"
     /\ result.type = "graph"
     /\ parse_output(output_uri).type \in {"rtp", "multicast"}) =>
        LET g == result.arg
        IN  \A k \in Positions(g, EncoderStages) :
               /\ k < Len(g)
               /\ PayloaderFamily(g[k + 1]) = EncoderFamily(g[k])

(***************************************************************************)
(* The two slots on Jetson.                                                *)
(***************************************************************************)
\* the reader's previous call was get_frame() and the CPU slot has not been
\* written since: no capture has completed after that call
JustReadFrame == got.fn = "get_frame" /\ got.val = frame

\* C24: on Jetson the CPU frame and the CUDA frame a reader sees come from the
\* same sample: a reader that calls get_frame() and then get_cuda_frame(),
\* with no capture completing in between, gets the data of one sample from
\* both calls (or None from both), whatever the capture loop does meanwhile.
C24_SlotsSameSample ==
    [][(platform = "jetson" /\ JustReadFrame /\ GetCudaFrame) =>
          got'.val = got.val]_vars

(***************************************************************************)
(* The HTTP relay.                                                         *)
(***************************************************************************)
\* a step of the generator of connection c
ClientStep(c) ==
    \/ ClientConnect(c)
    \/ ClientPull(c)
    \/ ClientYield(c)
    \/ ClientResume(c)
    \/ ClientDisconnect(c)

\* the samples connection c holds or has been sent
SamplesOf(c) ==
    {n \in 1..MaxSamples :
        \/ clients[c].smp = n
        \/ \E i \in 1..Len(clients[c].chunks) : clients[c].chunks[i] = Chunk(Jpeg(n))}

\* C22: each connection of /stream runs its own pull loop: until the client
\* disconnects the loop goes on, it yields exactly one boundary-delimited
\* image/jpeg chunk, made of the sample's bytes, for each sample it has pulled
\* and mapped, and nothing else; a step of one connection changes nothing of
\* another, a sample taken by one connection reaches no other, and a
\* connection that waits to pull can pull whenever the engine has a sample,
\* whatever the other connections are doing (stalled at a yield or closed).
C22_ClientLoopsIndependent ==
    [][\A c \in 1..MaxClients :
          /\ (ClientYield(c) /\ clients'[c].at = "yield") =>
                clients'[c].chunks =
                    Append(clients[c].chunks,
                           <<"--frame\r\nContent-Type: image/jpeg\r\n\r\n">>
                              \o Jpeg(clients[c].smp) \o <<"\r\n">>)
          /\ clients'[c].chunks # clients[c].chunks =>
                \/ ClientYield(c) /\ clients'[c].at = "yield"
                \/ ClientConnect(c)
          /\ ClientStep(c) =>
                \A d \in 1..MaxClients \ {c} : clients'[d] = clients[d]
          /\ (clients[c].at # "off" /\ clients'[c].at = "off") => ClientDisconnect(c)
          /\ (clients[c].at = "pull" /\ Playing(clients[c].sink) /\ samples < MaxSamples)
                => ENABLED ClientPull(c)
          /\ \A d \in 1..MaxClients \ {c} : SamplesOf(c) \cap SamplesOf(d) = {}]_vars

\* connection 1 got sample 1 and is stalled at its yield; connection 2 has
\* pulled sample 2 after that and has been sent it
C22_Witness ==
    /\ clients[1].at = "yield"
    /\ clients[1].smp = 1
    /\ clients[1].chunks = <<Chunk(Jpeg(1))>>
    /\ clients[2].at = "yield"
    /\ clients[2].chunks = <<Chunk(Jpeg(2))>>

(***************************************************************************)
(* Mapped buffers.                                                         *)
(***************************************************************************)
\* C25: every buffer a pull loop maps is unmapped before that loop pulls
\* again, on every path: a capture loop and a streaming loop start each pull
\* with no buffer mapped, neither ever holds more than one mapped buffer, and
\* a streaming loop that has ended (its client is gone) holds none.
C25_MappedIsUnmapped ==
    [][/\ \A id \in 1..MaxInst :
             /\ CapturePull(id) => cap[id].maps = 0
             /\ cap'[id].maps <= 1
       /\ \A c \in 1..MaxClients :
             /\ ClientPull(c) => clients[c].maps = 0
             /\ clients'[c].maps <= 1
             /\ clients'[c].at = "off" => clients'[c].maps = 0]_vars

====
